---- MODULE Spec2Model ----
(***************************************************************************)
(* Daily Progress Log API (main.py): the four /logs route handlers, the    *)
(* get_current_user dependency, and the Firestore documents they act on.   *)
(*                                                                         *)
(* Strings that the code takes apart or that the store orders (the         *)
(* Authorization header, the date field, document ids) are sequences of    *)
(* one-character strings; the other text fields are opaque strings.        *)
(***************************************************************************)
EXTENDS Integers, Sequences, FiniteSets, TLC

VARIABLES
    db,        \* main.py:57/62  TRUE: firestore client built, FALSE: db = None
    store,     \* Firestore: store[uid] is the user's progress-logs collection,
               \* a function from the ids of its documents to their fields
    used,      \* used[uid]: the auto-ids the collection has handed to a document
    resp,      \* the last request served and the response it got
    inflight   \* requests being served concurrently, one record per worker

vars == <<db, store, used, resp, inflight>>

-----------------------------------------------------------------------------
(* Bounds of the model *)

\* documents the store ever receives (POST /logs requests that reach it)
MaxDocs == 2

-----------------------------------------------------------------------------
(* Strings *)

\* Characters in code-point order (ASCII): the order Firestore sorts strings by.
Alphabet == <<"0", "1", "2", "3", "4", "5", "6", "7", "8", "9">>

Ord(c) == CHOOSE k \in 1..Len(Alphabet) : Alphabet[k] = c

Min(a, b) == IF a < b THEN a ELSE b

\* s < t for Python / Firestore strings: lexicographic by code point.
StrLess(s, t) ==
    \E k \in 1..(Min(Len(s), Len(t)) + 1) :
        /\ \A j \in 1..(k - 1) : s[j] = t[j]
        /\ \/ k > Len(s) /\ k <= Len(t)
           \/ k <= Len(s) /\ k <= Len(t) /\ Ord(s[k]) < Ord(t[k])

\* str.find: the first index where sep occurs in s, 0 when it does not.
Find(s, sep) ==
    LET hits == {k \in 1..(Len(s) - Len(sep) + 1) :
                    SubSeq(s, k, k + Len(sep) - 1) = sep}
    IN  IF hits = {} THEN 0 ELSE CHOOSE k \in hits : \A j \in hits : k <= j

\* str.split(sep): the pieces of s between the non-overlapping occurrences of
\* sep, scanned left to right; always at least one piece.
RECURSIVE Split(_, _)
Split(s, sep) ==
    LET k == Find(s, sep)
    IN  IF k = 0 THEN <<s>>
        ELSE <<SubSeq(s, 1, k - 1)>> \o Split(SubSeq(s, k + Len(sep), Len(s)), sep)

\* The literal "Bearer " of main.py:106.
BearerSep == <<"B", "e", "a", "r", "e", "r", " ">>

-----------------------------------------------------------------------------
(* Identity: firebase_admin.auth.verify_id_token as main.py:107 uses it *)

Users == {"u1", "u2"}

\* ID tokens the identity service has issued, and whose they are.
TokenUid(tok) ==
    CASE tok = <<"a">> -> "u1"
      [] tok = <<"b">> -> "u2"
      [] OTHER -> ""

ExpiredTokens == {<<"e">>}

\* Outcome of auth.verify_id_token(id_token); svc is whether the identity
\* service's certificates can be fetched for this call.
verify_id_token(id_token, svc) ==
    IF id_token = <<>> THEN [exc |-> "ValueError", uid |-> ""]
    ELSE IF id_token \notin ExpiredTokens /\ TokenUid(id_token) = ""
        THEN [exc |-> "InvalidIdTokenError", uid |-> ""]
    ELSE IF ~svc THEN [exc |-> "CertificateFetchError", uid |-> ""]
    ELSE IF id_token \in ExpiredTokens THEN [exc |-> "ExpiredIdTokenError", uid |-> ""]
    ELSE [exc |-> "", uid |-> TokenUid(id_token)]

\* get_current_user without the check of lines 101-102: on a request with no
\* Authorization header, None.split raises AttributeError, which line 111
\* turns into a 500.
get_current_user_unchecked(dbh, headers, svc) ==
    IF ~dbh
    THEN [status |-> 500, detail |-> "Firebase connection not available.", uid |-> ""]
    ELSE IF "Authorization" \notin DOMAIN headers
    THEN [status |-> 500, detail |-> "An error occurred during token verification",
          uid |-> ""]
    ELSE
        LET parts == Split(headers["Authorization"], BearerSep)
            v == verify_id_token(parts[2], svc)
        IN  IF Len(parts) < 2 \/ v.exc \in {"InvalidIdTokenError", "ExpiredIdTokenError"}
            THEN [status |-> 401, detail |-> "Invalid or expired authentication token",
                  uid |-> ""]
            ELSE IF v.exc = ""
            THEN [status |-> 200, detail |-> "", uid |-> v.uid]
            ELSE [status |-> 500,
                  detail |-> "An error occurred during token verification",
                  uid |-> ""]

\* get_current_user: [status, detail, uid]; status 200 stands for "returned uid".
get_current_user(dbh, headers, svc) ==
    IF ~dbh
    THEN [status |-> 500, detail |-> "Firebase connection not available.", uid |-> ""]
    ELSE IF "Authorization" \notin DOMAIN headers \/ headers["Authorization"] = <<>>
    THEN [status |-> 401, detail |-> "Authorization header missing", uid |-> ""]
    ELSE
        LET parts == Split(headers["Authorization"], BearerSep)
        IN  IF Len(parts) < 2
            THEN \* IndexError
                 [status |-> 401, detail |-> "Invalid or expired authentication token",
                  uid |-> ""]
            ELSE
                LET v == verify_id_token(parts[2], svc)
                IN  IF v.exc = ""
                    THEN [status |-> 200, detail |-> "", uid |-> v.uid]
                    ELSE IF v.exc \in {"InvalidIdTokenError", "ExpiredIdTokenError"}
                    THEN [status |-> 401,
                          detail |-> "Invalid or expired authentication token",
                          uid |-> ""]
                    ELSE [status |-> 500,
                          detail |-> "An error occurred during token verification",
                          uid |-> ""]

-----------------------------------------------------------------------------
(* Pydantic models, main.py:19-31 *)

Null == "null"      \* Python None in an Optional[str] field

Fields == {"taskDescription", "project", "status", "priority", "startTime",
           "endTime", "duration", "comments", "date"}

\* LogEntry(**payload): the fields the caller sent, the declared default for
\* each Optional field it left out, and now (datetime.now().isoformat()) for
\* a date it left out.
LogEntry(payload, now) ==
    [f \in Fields |->
        IF f \in DOMAIN payload THEN payload[f]
        ELSE IF f = "date" THEN now
        ELSE Null]

\* log.model_dump(): a dict of all nine fields.
model_dump(log) == [f \in Fields |-> log[f]]

\* LogEntryResponse(id=id, **data)
LogEntryResponse(id, data) ==
    [f \in Fields \cup {"id"} |-> IF f = "id" THEN id ELSE data[f]]

-----------------------------------------------------------------------------
(* Firestore, as the handlers call it.  A collection is a function from the *)
(* ids of its documents to their field dicts.                               *)

\* doc_ref.get().exists
DocExists(coll, id) == id \in DOMAIN coll

\* set that writes the document without its date field
DocSetWithoutDate(coll, id, data) ==
    [i \in DOMAIN coll \cup {id} |->
        IF i = id THEN [f \in DOMAIN data \ {"date"} |-> data[f]] ELSE coll[i]]

\* doc_ref.set(data): creates the document or overwrites it.
DocSet(coll, id, data) ==
    [i \in DOMAIN coll \cup {id} |-> IF i = id THEN data ELSE coll[i]]

\* update with the semantics of set(data, merge=True): never raises, and
\* creates the document when it does not exist
DocUpdateUpsert(coll, id, data) ==
    [raised |-> FALSE,
     coll |-> [i \in DOMAIN coll \cup {id} |->
                 IF i = id
                 THEN [f \in (IF id \in DOMAIN coll THEN DOMAIN coll[i] ELSE {})
                             \cup DOMAIN data |->
                         IF f \in DOMAIN data THEN data[f] ELSE coll[i][f]]
                 ELSE coll[i]]]

\* doc_ref.update(data): raises NotFound when the document does not exist;
\* on an existing document the fields named in data are written and the
\* document's other fields stay.
DocUpdate(coll, id, data) ==
    IF id \notin DOMAIN coll
    THEN [raised |-> TRUE, coll |-> coll]
    ELSE [raised |-> FALSE,
          coll |-> [i \in DOMAIN coll |->
                      IF i = id
                      THEN [f \in DOMAIN coll[i] \cup DOMAIN data |->
                              IF f \in DOMAIN data THEN data[f] ELSE coll[i][f]]
                      ELSE coll[i]]]

\* delete that drops every document of the collection
DocDeleteAll(coll, id) == [i \in {} |-> coll[i]]

\* doc_ref.delete()
DocDelete(coll, id) == [i \in DOMAIN coll \ {id} |-> coll[i]]

\* the query with direction=ASCENDING
BeforeAscending(coll, a, b) ==
    \/ StrLess(coll[a]["date"], coll[b]["date"])
    \/ coll[a]["date"] = coll[b]["date"] /\ StrLess(a, b)

\* The position of document a before document b in
\* order_by("date", direction=DESCENDING): larger date first, and among equal
\* dates the larger document id first.
Before(coll, a, b) ==
    \/ StrLess(coll[b]["date"], coll[a]["date"])
    \/ coll[a]["date"] = coll[b]["date"] /\ StrLess(b, a)

RECURSIVE OrderedIds(_, _)
OrderedIds(coll, S) ==
    IF S = {} THEN <<>>
    ELSE LET first == CHOOSE a \in S : \A b \in S \ {a} : Before(coll, a, b)
         IN  <<first>> \o OrderedIds(coll, S \ {first})

\* collection.order_by("date", DESCENDING).stream(): the ids of the documents
\* that have a date field, in query order.
OrderByDateDesc(coll) ==
    OrderedIds(coll, {i \in DOMAIN coll : "date" \in DOMAIN coll[i]})


-----------------------------------------------------------------------------
(* Route handlers.  A handler is a sequence of store calls; a step is one   *)
(* store call with the code around it.  fails says that the store call of   *)
(* the step raises.  A step that ends the request carries the response.     *)

NoBody == <<>>

\* the step ended the request with this response
Done(coll, status, detail, out) ==
    [done |-> TRUE, coll |-> coll, status |-> status, detail |-> detail, out |-> out]

\* the handler goes on to its next store call
Continue(coll) ==
    [done |-> FALSE, coll |-> coll, status |-> 0, detail |-> "", out |-> NoBody]

\* main.py:130-136: doc_ref.set(log_data) and the response.
create_set(coll, log, new_id, fails) ==
    LET log_data == model_dump(log)
    IN  IF fails
        THEN Done(coll, 500, "Failed to create log: store error", NoBody)
        ELSE Done(DocSet(coll, new_id, log_data), 200, "",
                  LogEntryResponse(new_id, log_data))

\* main.py:148-157: the ordered query and the response built from it.
logs_stream(coll, fails) ==
    IF fails
    THEN Done(coll, 500, "Failed to retrieve logs: store error", NoBody)
    ELSE LET docs == OrderByDateDesc(coll)
         IN  Done(coll, 200, "",
                  [k \in 1..Len(docs) |-> LogEntryResponse(docs[k], coll[docs[k]])])

\* main.py:168-170: the existence check of update_log.  The HTTPException(404)
\* is raised inside the try block, and line 178 catches every Exception.
update_check(coll, log_id, fails) ==
    IF fails
    THEN Done(coll, 500, "Failed to update log: store error", NoBody)
    ELSE IF ~DocExists(coll, log_id)
    THEN Done(coll, 500, "Failed to update log: 404: Log not found", NoBody)
    ELSE Continue(coll)

\* main.py:172-173: doc_ref.update(log_data)
update_write(coll, log_id, log, fails) ==
    LET u == DocUpdate(coll, log_id, model_dump(log))
    IN  IF fails
        THEN Done(coll, 500, "Failed to update log: store error", NoBody)
        ELSE IF u.raised
        THEN Done(coll, 500, "Failed to update log: 404 No document to update", NoBody)
        ELSE Continue(u.coll)

\* main.py:176-177: the re-read and the response.  to_dict() of a document
\* that is gone is None, and LogEntryResponse(id=..., **None) a TypeError.
update_reread(coll, log_id, fails) ==
    IF fails
    THEN Done(coll, 500, "Failed to update log: store error", NoBody)
    ELSE IF ~DocExists(coll, log_id)
    THEN Done(coll, 500, "Failed to update log: argument after ** must be a mapping",
              NoBody)
    ELSE Done(coll, 200, "", LogEntryResponse(log_id, coll[log_id]))

\* main.py:190-192: the existence check of delete_log, caught like update's.
delete_check(coll, log_id, fails) ==
    IF fails
    THEN Done(coll, 500, "Failed to delete log: store error", NoBody)
    ELSE IF ~DocExists(coll, log_id)
    THEN Done(coll, 500, "Failed to delete log: 404: Log not found", NoBody)
    ELSE Continue(coll)

\* main.py:194-195: doc_ref.delete()
delete_write(coll, log_id, fails) ==
    IF fails
    THEN Done(coll, 500, "Failed to delete log: store error", NoBody)
    ELSE Done(DocDelete(coll, log_id), 204, "", NoBody)

(* The handlers run alone: fail is the number of the store call of the      *)
(* request that raises (0: none does), calls the number of store calls made *)

Result(s, calls) ==
    [coll |-> s.coll, status |-> s.status, detail |-> s.detail, out |-> s.out,
     calls |-> calls]

\* main.py:126-136
create_log(coll, log, new_id, fail) ==
    Result(create_set(coll, log, new_id, fail = 1), 1)

\* main.py:143-157
get_logs(coll, fail) ==
    Result(logs_stream(coll, fail = 1), 1)

\* update_log answering from the snapshot of its existence check instead of
\* re-reading the document after the write
update_log_stale(coll, log_id, log, fail) ==
    LET c == update_check(coll, log_id, fail = 1)
        w == update_write(c.coll, log_id, log, fail = 2)
    IN  IF c.done THEN Result(c, 1)
        ELSE IF w.done THEN Result(w, 2)
        ELSE Result(Done(w.coll, 200, "", LogEntryResponse(log_id, coll[log_id])), 2)

\* main.py:164-179
update_log(coll, log_id, log, fail) ==
    LET c == update_check(coll, log_id, fail = 1)
        w == update_write(c.coll, log_id, log, fail = 2)
        r == update_reread(w.coll, log_id, fail = 3)
    IN  IF c.done THEN Result(c, 1)
        ELSE IF w.done THEN Result(w, 2)
        ELSE Result(r, 3)

\* main.py:186-197
delete_log(coll, log_id, fail) ==
    LET c == delete_check(coll, log_id, fail = 1)
        w == delete_write(c.coll, log_id, fail = 2)
    IN  IF c.done THEN Result(c, 1) ELSE Result(w, 2)

-----------------------------------------------------------------------------
(* Requests the model sends *)

Hdr(v) == [k \in {"Authorization"} |-> v]
NoHdr == [k \in {} |-> <<>>]

HeaderSet ==
    { NoHdr,
      Hdr(<<>>),                             \* "": present and empty
      Hdr(BearerSep \o <<"a">>),             \* "Bearer a": u1's token
      Hdr(BearerSep \o <<"b">>),             \* "Bearer b": u2's token
      Hdr(BearerSep \o <<"z">>),             \* "Bearer z": no token of the service
      Hdr(BearerSep \o <<"e">>),             \* "Bearer e": an expired token
      Hdr(BearerSep),                        \* "Bearer ": nothing after the prefix
      Hdr(<<"B", "e", "a", "r", "e", "r">>), \* "Bearer": no space, no token
      Hdr(<<"x">> \o BearerSep \o <<"a">>)   \* "xBearer a": the prefix is not first
    }

Ids == {<<"1">>, <<"2">>}

Clock == {<<"2">>}

Required(t) ==
    [f \in {"taskDescription", "project", "status", "priority"} |->
        IF f = "taskDescription" THEN t ELSE "v"]

WithDate(p, d) ==
    [f \in DOMAIN p \cup {"date"} |-> IF f = "date" THEN d ELSE p[f]]

\* Request bodies: one that leaves the date to the server, one that gives it
\* ("10" sorts before the clock's "2" as a string).
Payloads ==
    { Required("t1"),
      WithDate(Required("t2"), <<"1", "0">>) }

-----------------------------------------------------------------------------
(* The service, one request at a time *)

\* one collection for every user: the path built without user_id
collection_path_shared(user_id) == "u1"

\* main.py:128, 145, 166, 188: the collection a handler works on is the one at
\* artifacts/default-app-id/users/{user_id}/progress-logs; store is keyed by
\* the user_id of that path.
collection_path(user_id) == user_id

NoArgs == [k \in {} |-> <<>>]

Served(op, headers, uid, args, status, detail, out, calls) ==
    [op |-> op, headers |-> headers, uid |-> uid, args |-> args,
     status |-> status, detail |-> detail, out |-> out, calls |-> calls]

\* The dependency raised: the handler body never runs.
Rejected(op, headers, a) ==
    Served(op, headers, "", NoArgs, a.status, a.detail, NoBody, 0)

Idle == [pc |-> "idle", op |-> "", uid |-> "", log_id |-> <<>>, log |-> NoArgs,
         status |-> 0, detail |-> "", out |-> NoBody]
Workers == {"w1", "w2"}

Init ==
    /\ db \in BOOLEAN
    /\ store = [u \in Users |-> [i \in {} |-> <<>>]]
    /\ used = [u \in Users |-> {}]
    /\ resp = Served("none", NoHdr, "", NoArgs, 0, "", NoBody, 0)
    /\ inflight = [w \in Workers |-> Idle]

\* auto-ids handed out so far, over all collections
RECURSIVE Count(_)
Count(S) ==
    IF S = {} THEN 0
    ELSE LET u == CHOOSE x \in S : TRUE
         IN  Cardinality(used[u]) + Count(S \ {u})

Allocated == Count(Users)

\* GET /
ReadRoot ==
    /\ resp' = Served("read_root", NoHdr, "", NoArgs, 200,
                      "Welcome to the Daily Progress Log API!", NoBody, 0)
    /\ UNCHANGED <<db, store, used, inflight>>

\* POST /logs, the request drawn from the headers H and the bodies P
PostLogs(H, P) ==
    \E headers \in H, svc \in BOOLEAN :
        LET a == get_current_user(db, headers, svc)
        IN  IF a.status # 200
            THEN /\ resp' = Rejected("create_log", headers, a)
                 /\ UNCHANGED <<db, store, used, inflight>>
            ELSE \E payload \in P, now \in Clock,
                    new_id \in Ids \ used[collection_path(a.uid)], fail \in {0, 1} :
                    LET log == LogEntry(payload, now)
                        r == create_log(store[collection_path(a.uid)], log, new_id, fail)
                    IN  /\ Allocated < MaxDocs
                        /\ store' = [store EXCEPT ![collection_path(a.uid)] = r.coll]
                        /\ used' = IF r.status = 200
                                   THEN [used EXCEPT ![collection_path(a.uid)] = @ \cup {new_id}]
                                   ELSE used
                        /\ resp' = Served("create_log", headers, a.uid,
                                          [log |-> log], r.status, r.detail,
                                          r.out, r.calls)
                        /\ UNCHANGED <<db, inflight>>

CreateLog == PostLogs(HeaderSet, Payloads)

\* GET /logs
GetLogs ==
    \E headers \in HeaderSet, svc \in BOOLEAN :
        LET a == get_current_user(db, headers, svc)
        IN  IF a.status # 200
            THEN /\ resp' = Rejected("get_logs", headers, a)
                 /\ UNCHANGED <<db, store, used, inflight>>
            ELSE \E fail \in {0, 1} :
                    LET r == get_logs(store[collection_path(a.uid)], fail)
                    IN  /\ store' = [store EXCEPT ![collection_path(a.uid)] = r.coll]
                        /\ resp' = Served("get_logs", headers, a.uid, NoArgs,
                                          r.status, r.detail, r.out, r.calls)
                        /\ UNCHANGED <<db, used, inflight>>

\* PUT /logs/{log_id}
UpdateLog ==
    \E headers \in HeaderSet, svc \in BOOLEAN :
        LET a == get_current_user(db, headers, svc)
        IN  IF a.status # 200
            THEN /\ resp' = Rejected("update_log", headers, a)
                 /\ UNCHANGED <<db, store, used, inflight>>
            ELSE \E log_id \in Ids, payload \in Payloads, now \in Clock,
                    fail \in {0, 1, 2, 3} :
                    LET log == LogEntry(payload, now)
                        r == update_log(store[collection_path(a.uid)], log_id, log, fail)
                    IN  /\ store' = [store EXCEPT ![collection_path(a.uid)] = r.coll]
                        /\ resp' = Served("update_log", headers, a.uid,
                                          [log_id |-> log_id, log |-> log],
                                          r.status, r.detail, r.out, r.calls)
                        /\ UNCHANGED <<db, used, inflight>>

\* DELETE /logs/{log_id}
DeleteLog ==
    \E headers \in HeaderSet, svc \in BOOLEAN :
        LET a == get_current_user(db, headers, svc)
        IN  IF a.status # 200
            THEN /\ resp' = Rejected("delete_log", headers, a)
                 /\ UNCHANGED <<db, store, used, inflight>>
            ELSE \E log_id \in Ids, fail \in {0, 1, 2} :
                    LET r == delete_log(store[collection_path(a.uid)], log_id, fail)
                    IN  /\ store' = [store EXCEPT ![collection_path(a.uid)] = r.coll]
                        /\ resp' = Served("delete_log", headers, a.uid,
                                          [log_id |-> log_id],
                                          r.status, r.detail, r.out, r.calls)
                        /\ UNCHANGED <<db, used, inflight>>

Next == ReadRoot \/ CreateLog \/ GetLogs \/ UpdateLog \/ DeleteLog

Spec == Init /\ [][Next]_vars

-----------------------------------------------------------------------------
(* The service with requests in flight at once: each worker runs one        *)
(* update_log or delete_log, one store call per step, and the steps of the  *)
(* workers interleave.  The requests are u1's: only requests of one user    *)
(* meet in a collection.                                                    *)

ConcHeaders == {Hdr(BearerSep \o <<"a">>)}
ConcCreateBodies == {Required("t1")}
ConcUpdateBodies == {WithDate(Required("t2"), <<"1", "0">>)}

Running(op, uid, log_id, log, pc) ==
    [pc |-> pc, op |-> op, uid |-> uid, log_id |-> log_id, log |-> log,
     status |-> 0, detail |-> "", out |-> NoBody]

Finished(q, s) ==
    [q EXCEPT !.pc = "done", !.status = s.status, !.detail = s.detail, !.out = s.out]

\* The request after the step whose outcome is s.
After(q, s, next_pc) == IF s.done THEN Finished(q, s) ELSE [q EXCEPT !.pc = next_pc]

\* A worker takes a request that get_current_user lets through.
AcceptUpdate(w) ==
    /\ inflight[w].pc \in {"idle", "done"}
    /\ \E headers \in ConcHeaders, log_id \in Ids, payload \in ConcUpdateBodies,
          now \in Clock :
        LET a == get_current_user(db, headers, TRUE)
        IN  /\ a.status = 200
            /\ inflight' = [inflight EXCEPT ![w] =
                    Running("update_log", a.uid, log_id, LogEntry(payload, now), "check")]
    /\ UNCHANGED <<db, store, used, resp>>

AcceptDelete(w) ==
    /\ inflight[w].pc \in {"idle", "done"}
    /\ \E headers \in ConcHeaders, log_id \in Ids :
        LET a == get_current_user(db, headers, TRUE)
        IN  /\ a.status = 200
            /\ inflight' = [inflight EXCEPT ![w] =
                    Running("delete_log", a.uid, log_id, NoArgs, "check")]
    /\ UNCHANGED <<db, store, used, resp>>

\* One step of worker w's request: the store call at its pc.
StepOf(w, op, pc, next_pc, s) ==
    /\ inflight[w].pc = pc
    /\ inflight[w].op = op
    /\ store' = [store EXCEPT ![collection_path(inflight[w].uid)] = s.coll]
    /\ inflight' = [inflight EXCEPT ![w] = After(@, s, next_pc)]
    /\ UNCHANGED <<db, used, resp>>

UpdateCheck(w) ==
    \E fails \in BOOLEAN :
        /\ inflight[w].pc = "check" /\ inflight[w].op = "update_log"
        /\ StepOf(w, "update_log", "check", "write",
                  update_check(store[collection_path(inflight[w].uid)], inflight[w].log_id, fails))

UpdateWrite(w) ==
    \E fails \in BOOLEAN :
        /\ inflight[w].pc = "write" /\ inflight[w].op = "update_log"
        /\ StepOf(w, "update_log", "write", "reread",
                  update_write(store[collection_path(inflight[w].uid)], inflight[w].log_id,
                               inflight[w].log, fails))

UpdateReread(w) ==
    \E fails \in BOOLEAN :
        /\ inflight[w].pc = "reread" /\ inflight[w].op = "update_log"
        /\ StepOf(w, "update_log", "reread", "done",
                  update_reread(store[collection_path(inflight[w].uid)], inflight[w].log_id, fails))

DeleteCheck(w) ==
    \E fails \in BOOLEAN :
        /\ inflight[w].pc = "check" /\ inflight[w].op = "delete_log"
        /\ StepOf(w, "delete_log", "check", "write",
                  delete_check(store[collection_path(inflight[w].uid)], inflight[w].log_id, fails))

DeleteWrite(w) ==
    \E fails \in BOOLEAN :
        /\ inflight[w].pc = "write" /\ inflight[w].op = "delete_log"
        /\ StepOf(w, "delete_log", "write", "done",
                  delete_write(store[collection_path(inflight[w].uid)], inflight[w].log_id, fails))

\* POST /logs makes one store call: it is one step among the others.
ConcCreate == PostLogs(ConcHeaders, ConcCreateBodies)

NextConc ==
    \/ ConcCreate
    \/ \E w \in Workers : AcceptUpdate(w)
    \/ \E w \in Workers : AcceptDelete(w)
    \/ \E w \in Workers : UpdateCheck(w)
    \/ \E w \in Workers : UpdateWrite(w)
    \/ \E w \in Workers : UpdateReread(w)
    \/ \E w \in Workers : DeleteCheck(w)
    \/ \E w \in Workers : DeleteWrite(w)

SpecConc == Init /\ [][NextConc]_vars

-----------------------------------------------------------------------------
(* Properties *)

LogsOps == {"create_log", "get_logs", "update_log", "delete_log"}

StoreErrors ==
    {"Failed to create log: store error", "Failed to retrieve logs: store error",
     "Failed to update log: store error", "Failed to delete log: store error"}

\* the response r came from a handler body (get_current_user returned a uid)
Handled(r) == r.op \in LogsOps /\ r.uid \in Users

\* what GET /logs answers to user_id in the current state
ListAll(user_id) == get_logs(store[collection_path(user_id)], 0)

\* the positions of the listing l that carry the id
Positions(l, id) == {k \in 1..Len(l) : l[k]["id"] = id}

\* C1: an update or delete of an id that has no document in the caller's
\* namespace, with the store answering its calls, is answered 404 and leaves
\* the store unchanged.
C1_MissingTargetIsNotFound ==
    [][ ( /\ resp' # resp
          /\ Handled(resp')
          /\ resp'.op \in {"update_log", "delete_log"}
          /\ resp'.detail \notin StoreErrors
          /\ resp'.args.log_id \notin DOMAIN store[resp'.uid] )
        => (resp'.status = 404 /\ store' = store) ]_vars

\* C2 as stated: a /logs request without an Authorization header is answered
\* 401 whatever the state of db, and makes no store call.
C2_NoHeaderAlways401 ==
    [][ ( /\ resp' # resp
          /\ resp'.op \in LogsOps
          /\ "Authorization" \notin DOMAIN resp'.headers )
        => (resp'.status = 401 /\ resp'.calls = 0 /\ store' = store) ]_vars

\* C2 as the code has it: a /logs request without an Authorization header
\* makes no store call and leaves the store unchanged; it is answered 401
\* when db was initialised and 500 when db is None.
C2_NoHeaderRejected ==
    [][ ( /\ resp' # resp
          /\ resp'.op \in LogsOps
          /\ "Authorization" \notin DOMAIN resp'.headers )
        => ( /\ resp'.status = (IF db THEN 401 ELSE 500)
             /\ resp'.calls = 0
             /\ store' = store
             /\ used' = used ) ]_vars

\* a header-less PUT /logs/{id} was answered 401 while the store holds documents
C2_Witness ==
    /\ db
    /\ resp.op = "update_log"
    /\ "Authorization" \notin DOMAIN resp.headers
    /\ resp.status = 401
    /\ \E u \in Users : DOMAIN store[u] # {}

\* C3: user isolation.  A request leaves every namespace but its caller's
\* unchanged, and every entry GET /logs returns to a user is a document of
\* that user's namespace.
C3_UserIsolation ==
    [][ /\ \A u \in Users : resp'.uid # u => store'[u] = store[u]
        /\ (resp'.op = "get_logs" /\ resp'.status = 200) =>
              \A k \in 1..Len(resp'.out) :
                  /\ resp'.out[k]["id"] \in DOMAIN store[resp'.uid]
                  /\ \A f \in Fields :
                        resp'.out[k][f] = store[resp'.uid][resp'.out[k]["id"]][f]
      ]_vars

\* u2 updated the id of a document that u1 holds too, and u1's differs still
C3_Witness ==
    /\ resp.op = "update_log"
    /\ resp.uid = "u2"
    /\ resp.status = 200
    /\ resp.args.log_id \in DOMAIN store["u1"]
    /\ store["u1"][resp.args.log_id] # store["u2"][resp.args.log_id]

\* C4: right after a successful create, GET /logs for the same user returns
\* exactly one entry with the id create returned, equal to create's response,
\* whose fields are those of the record created (the date given or defaulted).
C4_CreateThenList ==
    (Handled(resp) /\ resp.op = "create_log" /\ resp.status = 200) =>
        LET l == ListAll(resp.uid)
            at == Positions(l.out, resp.out["id"])
        IN  /\ l.status = 200
            /\ Cardinality(at) = 1
            /\ \A k \in at : l.out[k] = resp.out
            /\ \A f \in Fields : resp.out[f] = resp.args.log[f]

\* a create with a defaulted date succeeded in a namespace that held a document
C4_Witness ==
    /\ Handled(resp) /\ resp.op = "create_log" /\ resp.status = 200
    /\ resp.out["date"] \in Clock
    /\ Cardinality(DOMAIN store[resp.uid]) = 2

\* C5: in every state GET /logs returns every document of the namespace once,
\* larger dates first; a document just created with a date below all others
\* is last; an empty namespace gives the empty list, status 200.
C5_ListSortedComplete ==
    /\ \A u \in Users :
        LET l == ListAll(u)
        IN  /\ l.status = 200
            /\ Len(l.out) = Cardinality(DOMAIN store[u])
            /\ \A i \in DOMAIN store[u] :
                  /\ Cardinality(Positions(l.out, i)) = 1
                  /\ \A k \in Positions(l.out, i) :
                        \A f \in Fields : l.out[k][f] = store[u][i][f]
            /\ \A j, k \in 1..Len(l.out) :
                  j < k => ~StrLess(l.out[j]["date"], l.out[k]["date"])
            /\ (DOMAIN store[u] = {}) => l.out = <<>>
    /\ (Handled(resp) /\ resp.op = "get_logs" /\ resp.status = 200) =>
          resp.out = ListAll(resp.uid).out
    /\ ( /\ Handled(resp) /\ resp.op = "create_log" /\ resp.status = 200
         /\ \A i \in DOMAIN store[resp.uid] \ {resp.out["id"]} :
               StrLess(resp.out["date"], store[resp.uid][i]["date"]) )
       => LET l == ListAll(resp.uid).out IN l[Len(l)]["id"] = resp.out["id"]

\* GET /logs returned two entries with different dates
C5_Witness ==
    /\ Handled(resp) /\ resp.op = "get_logs" /\ resp.status = 200
    /\ Len(resp.out) = 2
    /\ resp.out[1]["date"] # resp.out[2]["date"]
\* C6: a successful delete removes exactly the addressed document of the
\* caller's namespace: the id is listed no more, the caller's other documents
\* and every other namespace are as before, and GET /logs is empty when the
\* document was the only one.
C6_DeleteRemovesExactlyOne ==
    [][ ( /\ resp' # resp
          /\ Handled(resp')
          /\ resp'.op = "delete_log"
          /\ resp'.status = 204 )
        => LET u == resp'.uid
               id == resp'.args.log_id
               l == get_logs(store'[u], 0)
           IN  /\ id \in DOMAIN store[u]
               /\ DOMAIN store'[u] = DOMAIN store[u] \ {id}
               /\ \A i \in DOMAIN store'[u] : store'[u][i] = store[u][i]
               /\ \A v \in Users \ {u} : store'[v] = store[v]
               /\ l.status = 200
               /\ Positions(l.out, id) = {}
               /\ (DOMAIN store[u] = {id}) => l.out = <<>>
      ]_vars

\* a delete succeeded while another user holds a document under the same id
C6_Witness ==
    /\ Handled(resp) /\ resp.op = "delete_log" /\ resp.status = 204
    /\ \E v \in Users \ {resp.uid} : resp.args.log_id \in DOMAIN store[v]

\* C7: update is idempotent.  After a successful update(u, id, r), the same
\* update applied again leaves the store as it is and answers with the same
\* record under the same id.
C7_UpdateIdempotent ==
    (Handled(resp) /\ resp.op = "update_log" /\ resp.status = 200) =>
        LET again == update_log(store[resp.uid], resp.args.log_id, resp.args.log, 0)
        IN  /\ again.status = 200
            /\ again.coll = store[resp.uid]
            /\ again.out = resp.out
            /\ again.out["id"] = resp.args.log_id

\* an update succeeded in a namespace of two documents
C7_Witness ==
    /\ Handled(resp) /\ resp.op = "update_log" /\ resp.status = 200
    /\ Cardinality(DOMAIN store[resp.uid]) = 2

\* C8: a create, update or delete that answers with an error leaves the store
\* as it was before the request.
C8_ErrorLeavesStoreUnchanged ==
    [][ ( /\ resp' # resp
          /\ resp'.op \in {"create_log", "update_log", "delete_log"}
          /\ resp'.status >= 400 )
        => store' = store ]_vars

\* the prefix "Bearer " followed by a token
BearerForm(v) ==
    /\ Len(v) > Len(BearerSep)
    /\ SubSeq(v, 1, Len(BearerSep)) = BearerSep

\* C9: with db initialised, a /logs request whose Authorization header is
\* present and not of the form "Bearer <token>" is answered 401 and makes no
\* store call.
C9_MalformedHeaderIs401 ==
    ( /\ db
      /\ resp.op \in LogsOps
      /\ "Authorization" \in DOMAIN resp.headers
      /\ ~BearerForm(resp.headers["Authorization"]) )
    => (resp.status = 401 /\ resp.calls = 0)

\* C10: with update and delete requests interleaving their store calls, a
\* document that was removed never exists again, and an update whose write
\* step finds the document removed ends there, without success.
C10_UpdateNeverCreates ==
    [][ /\ \A u \in Users : \A i \in used[u] :
              i \notin DOMAIN store[u] => i \notin DOMAIN store'[u]
        /\ \A w \in Workers :
              ( /\ inflight[w].op = "update_log"
                /\ inflight[w].pc = "write"
                /\ inflight'[w] # inflight[w]
                /\ inflight[w].log_id \notin DOMAIN store[inflight[w].uid] )
              => (inflight'[w].pc = "done" /\ inflight'[w].status >= 400)
      ]_vars

\* one worker's delete removed the document between the existence check and
\* the write of another worker's update, which ended with an error
C10_Witness ==
    \E w, x \in Workers :
        /\ inflight[w].op = "update_log" /\ inflight[w].pc = "done"
        /\ inflight[w].detail = "Failed to update log: 404 No document to update"
        /\ inflight[x].op = "delete_log" /\ inflight[x].pc = "done"
        /\ inflight[x].status = 204
        /\ inflight[x].log_id = inflight[w].log_id
        /\ inflight[w].log_id \notin DOMAIN store[inflight[w].uid]

====
